---- MODULE Spec2Model ----
(***************************************************************************)
(* Model of the Token class of core/lib/token.mjs: the three-segment       *)
(* signed token (encode / decode / validate / verify / generate) and the   *)
(* CSRF pair (generateCsrf / verifyCsrf).                                  *)
(*                                                                         *)
(* JavaScript strings are sequences of UTF-16 code units (naturals).       *)
(* JavaScript values are tagged records [t, v]:                            *)
(*   t = "s"  a string, v its code units                                   *)
(*   t = "n"  a number (a natural here), v its value                       *)
(*   t = "o"  an object, v the sequence of <<name, value>> pairs in        *)
(*            insertion order                                              *)
(*   t = "z"  null,  t = "u"  undefined,  t = "b"  a boolean (v = 0 / 1)   *)
(* The text of an HMAC-SHA512 digest is a run of symbols outside the       *)
(* code-unit range that is an injective image of (encoding, key, message): *)
(* the hash is collision free and cannot be computed without the key.      *)
(***************************************************************************)
EXTENDS Integers, Sequences, FiniteSets, TLC

VARIABLES CONFIG, now, held, call, importing

vars == <<CONFIG, now, held, call, importing>>

----------------------------------------------------------------------------
(* Characters and names *)

CH == [quote |-> 34, pct |-> 37, plus |-> 43, comma |-> 44, dot |-> 46,
       slash |-> 47, zero |-> 48, colon |-> 58, eq |-> 61, bslash |-> 92,
       lbrace |-> 123, rbrace |-> 125, upA |-> 65, lowa |-> 97]

NAME == [alg      |-> <<97, 108, 103>>,
         SHA256   |-> <<83, 72, 65, 50, 53, 54>>,
         iss      |-> <<105, 115, 115>>,
         gen      |-> <<103, 101, 110>>,
         exp      |-> <<101, 120, 112>>,
         data     |-> <<100, 97, 116, 97>>,
         userId   |-> <<117, 115, 101, 114, 73, 100>>,
         userKey  |-> <<117, 115, 101, 114, 75, 101, 121>>,
         userRkey |-> <<117, 115, 101, 114, 82, 107, 101, 121>>,
         id       |-> <<105, 100>>,
         create   |-> <<99, 114, 101, 97, 116, 101>>,
         createdAt |-> <<99, 114, 101, 97, 116, 101, 100, 65, 116>>,
         null     |-> <<110, 117, 108, 108>>]

Str(s)   == [t |-> "s", v |-> s]
Num(n)   == [t |-> "n", v |-> n]
Obj(ps)  == [t |-> "o", v |-> ps]
Null     == [t |-> "z", v |-> 0]
Undefined == [t |-> "u", v |-> 0]

IsStr(x) == x.t = "s"
IsNum(x) == x.t = "n"
IsObj(x) == x.t = "o"

(* obj[name]: the last pair of that name, undefined when there is none or
   when obj is a primitive. *)
Get(obj, name) ==
    IF ~IsObj(obj) THEN Undefined
    ELSE LET hits == {i \in 1..Len(obj.v) : obj.v[i][1] = name}
         IN  IF hits = {} THEN Undefined
             ELSE obj.v[CHOOSE i \in hits : \A j \in hits : j <= i][2]

(* obj.hasOwnProperty(name) *)
HasOwn(obj, name) == IsObj(obj) /\ \E i \in 1..Len(obj.v) : obj.v[i][1] = name

(* The names a for..in loop over x visits. *)
KeysOf(x) == IF IsObj(x) THEN {x.v[i][1] : i \in 1..Len(x.v)} ELSE {}

(* Strict evaluation: Bind(e, F) is F(e) with e evaluated once, Only(S) the
   element of a one-element set. *)
Only(S) == CHOOSE x \in S : TRUE

Bind(e, F(_)) == Only({F(x) : x \in {e}})

RECURSIVE Flatten(_)
Flatten(ss0) ==
    Bind(ss0, LAMBDA ss :
      IF Len(ss) = 0 THEN <<>>
      ELSE IF Len(ss) = 1 THEN ss[1]
      ELSE Flatten(SubSeq(ss, 1, Len(ss) \div 2))
           \o Flatten(SubSeq(ss, Len(ss) \div 2 + 1, Len(ss))))

(* The least element of a non-empty set of numbers. *)
Min(S) == CHOOSE i \in S : \A j \in S : i <= j

----------------------------------------------------------------------------
(* JSON.stringify *)

RECURSIVE Digits(_)
Digits(n0) ==
    Bind(n0, LAMBDA n :
      IF n < 10 THEN <<CH.zero + n>>
      ELSE Append(Digits(n \div 10), CH.zero + (n % 10)))

(* A string literal: quote and backslash are escaped, every other code unit
   of the model's alphabet is written as it is. *)
QuoteStr(s0) ==
    Bind(s0, LAMBDA s :
      <<CH.quote>>
      \o Flatten([i \in 1..Len(s) |->
                    IF s[i] = CH.quote \/ s[i] = CH.bslash
                    THEN <<CH.bslash, s[i]>> ELSE <<s[i]>>])
      \o <<CH.quote>>)

(* A member whose value is undefined is left out. *)
RECURSIVE JSONstringify(_)
JSONstringify(x0) ==
    Bind(x0, LAMBDA x :
      CASE x.t = "s" -> QuoteStr(x.v)
        [] x.t = "n" -> Digits(x.v)
        [] x.t = "z" -> NAME.null
        [] x.t = "o" ->
             Bind(SelectSeq(x.v, LAMBDA p : p[2].t # "u"), LAMBDA kept :
               <<CH.lbrace>>
               \o Flatten([i \in 1..Len(kept) |->
                             (IF i = 1 THEN <<>> ELSE <<CH.comma>>)
                             \o QuoteStr(kept[i][1]) \o <<CH.colon>>
                             \o JSONstringify(kept[i][2])])
               \o <<CH.rbrace>>))

----------------------------------------------------------------------------
(* JSON.parse, as the automaton that reads the text one code unit at a
   time. The texts of this model hold objects, strings, non-negative
   integers and null; a text with anything else (true, false, an array, a
   sign, a fraction, a \u escape) is refused. *)

IsDigit(c) == c >= CH.zero /\ c <= CH.zero + 9

IsSpace(c) == c \in {32, 9, 10, 13}

(* The parser's configuration: what it expects next (mode), the objects
   that are open, innermost last, each with the members read so far and the
   name of the member being read (stack), the string or number being read
   (str, num), and the value of the whole text once it is complete (val). *)
ParseStart == [mode |-> "value", stack |-> <<>>, str |-> <<>>, num |-> 0,
               val |-> Undefined]

ParseFail == [ParseStart EXCEPT !.mode = "fail"]

(* A value is complete: it is the text's value, or the value of the member
   being read of the innermost open object. *)
Complete(st, v) ==
    IF st.stack = <<>>
    THEN [st EXCEPT !.mode = "after", !.val = v]
    ELSE [st EXCEPT !.mode = "after",
                    !.stack[Len(st.stack)].pairs =
                        Append(@, <<st.stack[Len(st.stack)].key, v>>)]

(* "}" closes the innermost open object, which is then a complete value. *)
CloseObject(st) ==
    Complete([st EXCEPT !.stack = SubSeq(@, 1, Len(@) - 1)],
             Obj(st.stack[Len(st.stack)].pairs))

(* The character an escape \c stands for, -1 when there is none. *)
Unescape(c) ==
    CASE c \in {CH.quote, CH.bslash, CH.slash} -> c
      [] c = 98 -> 8
      [] c = 102 -> 12
      [] c = 110 -> 10
      [] c = 114 -> 13
      [] c = 116 -> 9
      [] OTHER -> -1

(* After a complete value: "," and the next member or "}" inside an object,
   nothing but white space after the text's value. *)
StepAfter(st, c) ==
    IF IsSpace(c) THEN st
    ELSE IF st.stack = <<>> THEN ParseFail
    ELSE IF c = CH.comma THEN [st EXCEPT !.mode = "key"]
    ELSE IF c = CH.rbrace THEN CloseObject(st)
    ELSE ParseFail

(* Inside a string (a member's name when name is TRUE). *)
StepString(st, c, name) ==
    IF c = CH.quote
    THEN IF name
         THEN [st EXCEPT !.mode = "colon",
                         !.stack[Len(st.stack)].key = st.str]
         ELSE Complete(st, Str(st.str))
    ELSE IF c = CH.bslash
         THEN [st EXCEPT !.mode = IF name THEN "nameEscape" ELSE "escape"]
    ELSE IF c < 32 THEN ParseFail
    ELSE [st EXCEPT !.str = Append(@, c)]

(* One code unit read. *)
ParseStep(st, c) ==
    CASE st.mode = "value" ->
           IF IsSpace(c) THEN st
           ELSE IF c = CH.quote THEN [st EXCEPT !.mode = "string", !.str = <<>>]
           ELSE IF c = CH.zero THEN [st EXCEPT !.mode = "zero", !.num = 0]
           ELSE IF IsDigit(c)
                THEN [st EXCEPT !.mode = "number", !.num = c - CH.zero]
           ELSE IF c = CH.lbrace
                THEN [st EXCEPT !.mode = "first",
                                !.stack = Append(@, [pairs |-> <<>>,
                                                     key |-> <<>>])]
           ELSE IF c = NAME.null[1] THEN [st EXCEPT !.mode = "n"]
           ELSE ParseFail
      [] st.mode \in {"first", "key"} ->
           IF IsSpace(c) THEN st
           ELSE IF c = CH.quote THEN [st EXCEPT !.mode = "name", !.str = <<>>]
           ELSE IF c = CH.rbrace /\ st.mode = "first" THEN CloseObject(st)
           ELSE ParseFail
      [] st.mode = "name" -> StepString(st, c, TRUE)
      [] st.mode = "string" -> StepString(st, c, FALSE)
      [] st.mode \in {"nameEscape", "escape"} ->
           IF Unescape(c) < 0 THEN ParseFail
           ELSE [st EXCEPT !.mode = IF st.mode = "escape" THEN "string"
                                    ELSE "name",
                           !.str = Append(@, Unescape(c))]
      [] st.mode = "colon" ->
           IF IsSpace(c) THEN st
           ELSE IF c = CH.colon THEN [st EXCEPT !.mode = "value"]
           ELSE ParseFail
      [] st.mode = "number" ->
           IF IsDigit(c) THEN [st EXCEPT !.num = 10 * @ + (c - CH.zero)]
           ELSE IF c \in {CH.dot, 69, 101} THEN ParseFail
           ELSE StepAfter(Complete(st, Num(st.num)), c)
      [] st.mode = "zero" ->
           IF IsDigit(c) \/ c \in {CH.dot, 69, 101} THEN ParseFail
           ELSE StepAfter(Complete(st, Num(0)), c)
      [] st.mode = "n" ->
           IF c = NAME.null[2] THEN [st EXCEPT !.mode = "nu"] ELSE ParseFail
      [] st.mode = "nu" ->
           IF c = NAME.null[3] THEN [st EXCEPT !.mode = "nul"] ELSE ParseFail
      [] st.mode = "nul" ->
           IF c = NAME.null[4] THEN Complete(st, Null) ELSE ParseFail
      [] st.mode = "after" -> StepAfter(st, c)
      [] OTHER -> ParseFail

(* The configuration after s[lo..hi] is read from configuration st0. *)
RECURSIVE ParseRun(_, _, _, _)
ParseRun(s, lo0, hi0, st0) ==
    Bind(<<lo0, hi0, st0>>, LAMBDA a :
      IF a[1] > a[2] \/ a[3].mode = "fail" THEN a[3]
      ELSE IF a[1] = a[2] THEN ParseStep(a[3], s[a[1]])
      ELSE ParseRun(s, (a[1] + a[2]) \div 2 + 1, a[2],
                    ParseRun(s, a[1], (a[1] + a[2]) \div 2, a[3])))

(* [ok, val]; ok = FALSE is the SyntaxError. The text may end in a number. *)
JSONparse(s0) ==
    Bind(s0, LAMBDA s :
      Bind(ParseRun(s, 1, Len(s), ParseStart), LAMBDA st :
        IF st.stack # <<>> THEN [ok |-> FALSE, val |-> Undefined]
        ELSE IF st.mode = "after" THEN [ok |-> TRUE, val |-> st.val]
        ELSE IF st.mode \in {"number", "zero"}
             THEN [ok |-> TRUE, val |-> Num(st.num)]
        ELSE [ok |-> FALSE, val |-> Undefined]))

----------------------------------------------------------------------------
(* Buffer: 'binary' (latin1) and 'base64' *)

(* Buffer.from(text, 'binary'): one byte per code unit, its low eight bits. *)
BufferFromBinary(text0) ==
    Bind(text0, LAMBDA text : [i \in 1..Len(text) |-> text[i] % 256])

(* buf.toString('binary'): one code unit per byte. *)
BufferToBinary(buf) == buf

B64Alphabet ==
    <<65, 66, 67, 68, 69, 70, 71, 72, 73, 74, 75, 76, 77, 78, 79, 80, 81, 82,
      83, 84, 85, 86, 87, 88, 89, 90, 97, 98, 99, 100, 101, 102, 103, 104,
      105, 106, 107, 108, 109, 110, 111, 112, 113, 114, 115, 116, 117, 118,
      119, 120, 121, 122, 48, 49, 50, 51, 52, 53, 54, 55, 56, 57, 43, 47>>

B64Char(n) == B64Alphabet[n + 1]

(* The value of a base64 character, -1 for any other character. *)
B64Val(c) == IF c >= CH.upA /\ c < CH.upA + 26 THEN c - CH.upA
             ELSE IF c >= CH.lowa /\ c < CH.lowa + 26 THEN c - CH.lowa + 26
             ELSE IF IsDigit(c) THEN c - CH.zero + 52
             ELSE IF c = CH.plus THEN 62
             ELSE IF c = CH.slash THEN 63
             ELSE -1

(* buf.toString('base64'): four characters for every three bytes, "=" where
   the last group has no byte. *)
BufferToBase64(buf0) ==
    Bind(buf0, LAMBDA buf :
      LET n == Len(buf)
          byte(k) == IF k <= n THEN buf[k] ELSE 0
          word(g) == 65536 * byte(3 * g + 1) + 256 * byte(3 * g + 2)
                     + byte(3 * g + 3)
          grp(g) == Bind(word(g), LAMBDA w :
                      <<B64Char(w \div 262144),
                        B64Char((w \div 4096) % 64),
                        IF 3 * g + 2 <= n THEN B64Char((w \div 64) % 64)
                        ELSE CH.eq,
                        IF 3 * g + 3 <= n THEN B64Char(w % 64) ELSE CH.eq>>)
      IN  Flatten([g \in 1..((n + 2) \div 3) |-> grp(g - 1)]))

(* Buffer.from(text, 'base64'): decoding stops at the first "=", characters
   outside the alphabet are skipped, a trailing partial group gives the
   bytes it completes; it never throws. *)
BufferFromBase64(text0) ==
    Bind(text0, LAMBDA text :
      Bind(IF \E i \in 1..Len(text) : text[i] = CH.eq
           THEN Min({i \in 1..Len(text) : text[i] = CH.eq}) - 1
           ELSE Len(text), LAMBDA upto :
        Bind([k \in 1..upto |-> B64Val(text[k])], LAMBDA vals :
          Bind(SelectSeq(vals, LAMBDA v : v >= 0), LAMBDA sx :
            LET m == Len(sx)
                val(k) == IF k <= m THEN sx[k] ELSE 0
                grp(g) == Bind(262144 * val(4 * g + 1) + 4096 * val(4 * g + 2)
                               + 64 * val(4 * g + 3) + val(4 * g + 4),
                               LAMBDA w :
                                 <<w \div 65536, (w \div 256) % 256, w % 256>>)
            IN  SubSeq(Flatten([g \in 1..((m + 3) \div 4) |-> grp(g - 1)]),
                       1, (m * 6) \div 8)))))

btoa(text) == BufferToBase64(BufferFromBinary(text))

atob(text) == BufferToBinary(BufferFromBase64(text))

----------------------------------------------------------------------------
(* crypto.createHmac('sha512', key).update(msg).digest(enc) *)

HM == [base |-> 100000, sep |-> 170000, base64 |-> 170001, hex |-> 170002]

(* The digest text: the encoding's mark, the key, a separator, the message,
   all moved out of the code-unit range. Equal texts have equal encoding,
   key and message. *)
createHmac(key0, msg0, enc) ==
    Bind(<<key0, msg0>>, LAMBDA a :
      <<IF enc = "base64" THEN HM.base64 ELSE HM.hex>>
      \o [i \in 1..Len(a[1]) |-> HM.base + a[1][i]]
      \o <<HM.sep>>
      \o [i \in 1..Len(a[2]) |-> HM.base + a[2][i]])

(* String(key) *)
String(key) ==
    CASE key.t = "s" -> key.v
      [] key.t = "n" -> Digits(key.v)
      [] key.t = "z" -> NAME.null
      [] OTHER -> <<117, 110, 100, 101, 102, 105, 110, 101, 100>>

----------------------------------------------------------------------------
(* encodeURIComponent / decodeURIComponent, String.split, Array.join *)

HexDigit(n) == IF n < 10 THEN CH.zero + n ELSE CH.upA + (n - 10)

HexVal(c) == IF IsDigit(c) THEN c - CH.zero
             ELSE IF c >= CH.upA /\ c < CH.upA + 6 THEN c - CH.upA + 10
             ELSE IF c >= CH.lowa /\ c < CH.lowa + 6 THEN c - CH.lowa + 10
             ELSE -1

(* A-Z a-z 0-9 - _ . ! ~ * ' ( ) are not escaped; digest text is opaque. *)
Unreserved(c) ==
    \/ c >= CH.lowa /\ c < CH.lowa + 26
    \/ c >= CH.upA /\ c < CH.upA + 26
    \/ IsDigit(c)
    \/ c >= HM.base
    \/ c \in {45, 95, 46, 33, 126, 42, 39, 40, 41}

(* Every other code unit below 128 becomes %XX. The strings the code passes
   here are base64 text, dots and digest text, so nothing above 127 occurs. *)
RECURSIVE encodeURIComponent(_)
encodeURIComponent(s0) ==
    Bind(s0, LAMBDA s :
      IF \A i \in 1..Len(s) : Unreserved(s[i]) THEN s
      ELSE Bind(Min({i \in 1..Len(s) : ~Unreserved(s[i])}), LAMBDA i :
             SubSeq(s, 1, i - 1)
             \o <<CH.pct, HexDigit((s[i] \div 16) % 16), HexDigit(s[i] % 16)>>
             \o encodeURIComponent(SubSeq(s, i + 1, Len(s)))))

(* [ok, val]; ok = FALSE is the URIError of a "%" not followed by two hex
   digits, or of an escaped byte above 127 that starts no complete UTF-8
   sequence. *)
RECURSIVE decodeURIComponent(_)
decodeURIComponent(s0) ==
    Bind(s0, LAMBDA s :
      IF \A i \in 1..Len(s) : s[i] # CH.pct THEN [ok |-> TRUE, val |-> s]
      ELSE Bind(Min({i \in 1..Len(s) : s[i] = CH.pct}), LAMBDA i :
             IF i + 2 <= Len(s)
                /\ HexVal(s[i + 1]) >= 0 /\ HexVal(s[i + 1]) < 8
                /\ HexVal(s[i + 2]) >= 0
             THEN Bind(decodeURIComponent(SubSeq(s, i + 3, Len(s))),
                       LAMBDA rest :
                         IF rest.ok
                         THEN [ok |-> TRUE,
                               val |-> SubSeq(s, 1, i - 1)
                                       \o <<16 * HexVal(s[i + 1])
                                            + HexVal(s[i + 2])>>
                                       \o rest.val]
                         ELSE [ok |-> FALSE, val |-> <<>>])
             ELSE [ok |-> FALSE, val |-> <<>>]))

(* s.split('.') *)
RECURSIVE split(_)
split(s0) ==
    Bind(s0, LAMBDA s :
      IF \A i \in 1..Len(s) : s[i] # CH.dot THEN <<s>>
      ELSE Bind(Min({i \in 1..Len(s) : s[i] = CH.dot}), LAMBDA i :
             <<SubSeq(s, 1, i - 1)>> \o split(SubSeq(s, i + 1, Len(s)))))

(* segments.join('.') *)
RECURSIVE join(_)
join(segments0) ==
    Bind(segments0, LAMBDA segments :
      IF Len(segments) = 0 THEN <<>>
      ELSE IF Len(segments) = 1 THEN segments[1]
      ELSE segments[1] \o <<CH.dot>> \o join(Tail(segments)))

----------------------------------------------------------------------------
(* Token.encode, Token.decode, Token.validate *)

False == [t |-> "b", v |-> 0]

(* a < b and a == b of JavaScript read a string of digits as its number and
   null as 0; -1 stands for NaN. *)
RECURSIVE NumberOf(_)
NumberOf(digits0) ==
    Bind(digits0, LAMBDA digits :
      IF digits = <<>> THEN 0
      ELSE 10 * NumberOf(SubSeq(digits, 1, Len(digits) - 1))
           + (digits[Len(digits)] - CH.zero))

ToNum(x) == IF x.t = "n" THEN x.v
            ELSE IF x.t = "z" THEN 0
            ELSE IF x.t = "s" /\ \A i \in 1..Len(x.v) : IsDigit(x.v[i])
                 THEN NumberOf(x.v)
            ELSE -1

LessThan(x, n) == ToNum(x) >= 0 /\ ToNum(x) < n

(* The test without key != '': the empty string counts as a key. *)
KeyNotNull(key) == ~(key.t \in {"z", "u"})

(* key != null && key != undefined && key != '' *)
KeyGiven(key) == ~(key.t \in {"z", "u"}) /\ ~(key.t = "s" /\ key.v = <<>>)
                 /\ ~(key.t = "n" /\ key.v = 0)

Header == Obj(<< <<NAME.alg, Str(NAME.SHA256)>> >>)

(* The token string, or false. *)
encode(data, key) ==
    IF KeyGiven(key)
    THEN Bind(<<btoa(JSONstringify(Header)), btoa(JSONstringify(data))>>,
              LAMBDA segments :
                Bind(createHmac(String(key),
                                segments[1] \o <<CH.dot>> \o segments[2],
                                "base64"), LAMBDA sign :
                  Str(encodeURIComponent(join(Append(segments, sign))))))
    ELSE False

NoToken == [ok |-> FALSE, header |-> Undefined, body |-> Undefined, sign |-> <<>>]

(* [ok, header, body, sign]; ok = FALSE is the return value false. Anything
   thrown (URIError, SyntaxError) is caught and gives false. *)
decode(token) ==
    IF token.t \in {"z", "u"} \/ (token.t = "s" /\ token.v = <<>>)
    THEN NoToken
    ELSE IF token.t # "s" THEN NoToken
    ELSE Bind(decodeURIComponent(token.v), LAMBDA d :
           IF ~d.ok THEN NoToken
           ELSE Bind(split(d.val), LAMBDA segments :
                  IF Len(segments) < 3 THEN NoToken
                  ELSE Bind(<<JSONparse(atob(segments[1])),
                              JSONparse(atob(segments[2]))>>, LAMBDA hb :
                         IF ~hb[1].ok \/ ~hb[2].ok THEN NoToken
                         ELSE [ok |-> TRUE, header |-> hb[1].val,
                               body |-> hb[2].val, sign |-> segments[3]])))

MSG == [corrupted |-> "Token povrezhden",
        expired   |-> "Vremya dejstviya tokena isteklo",
        invalid   |-> "Nedejstvitelnyj token",
        valid     |-> "Dejstvitelnyj token",
        error     |-> "Oshibka proverki tokena"]

(* The comparison with <= in the place of <. *)
ExpiredOrNow(body, clock) == LessThan(Get(body, NAME.exp), clock + 1)

(* data.body.exp < time.timestamp *)
Expired(body, clock) == LessThan(Get(body, NAME.exp), clock)

(* validate without the comparison of the signatures. *)
validateUnsigned(token, key, clock) ==
    Bind(decode(token), LAMBDA data :
      IF ~data.ok THEN [success |-> FALSE, message |-> MSG.corrupted]
      ELSE IF data.body.t \in {"z", "u"}
           THEN [success |-> FALSE, message |-> MSG.error]
      ELSE IF Expired(data.body, clock)
           THEN [success |-> TRUE, message |-> MSG.expired]
      ELSE [success |-> TRUE, message |-> MSG.valid])

(* validate at clock time clock: [success, message]. Reading exp of a null
   body throws, which is caught. *)
validate(token, key, clock) ==
    Bind(decode(token), LAMBDA data :
      IF ~data.ok THEN [success |-> FALSE, message |-> MSG.corrupted]
      ELSE IF data.body.t \in {"z", "u"}
           THEN [success |-> FALSE, message |-> MSG.error]
      ELSE IF Expired(data.body, clock)
           THEN [success |-> TRUE, message |-> MSG.expired]
      ELSE Bind(split(decodeURIComponent(token.v).val), LAMBDA segments :
             Bind(createHmac(String(key),
                             segments[1] \o <<CH.dot>> \o segments[2],
                             "base64"), LAMBDA sign :
               IF data.sign # sign
               THEN [success |-> FALSE, message |-> MSG.invalid]
               ELSE [success |-> TRUE, message |-> MSG.valid])))

----------------------------------------------------------------------------
(* Token.verify *)

(* a != b of JavaScript. Two objects are never the same object here: one of
   them always comes out of JSON.parse. *)
LooseNe(a, b) ==
    IF a.t = b.t
    THEN IF a.t = "o" THEN TRUE
         ELSE IF a.t \in {"z", "u"} THEN FALSE
         ELSE a.v # b.v
    ELSE IF a.t \in {"z", "u"} /\ b.t \in {"z", "u"} THEN FALSE
    ELSE IF a.t = "s" /\ b.t = "n" THEN ToNum(a) # b.v
    ELSE IF a.t = "n" /\ b.t = "s" THEN ToNum(b) # a.v
    ELSE TRUE

Nullish(x) == x.t \in {"z", "u"}

(* The check with && in the place of ||: one property is enough. *)
CapableAny(user) ==
    HasOwn(user, NAME.userId) \/ HasOwn(user, NAME.userKey)
    \/ HasOwn(user, NAME.userRkey)

(* The capability check: user has the own properties userId, userKey and
   userRkey. *)
Capable(user) ==
    HasOwn(user, NAME.userId) /\ HasOwn(user, NAME.userKey)
    /\ HasOwn(user, NAME.userRkey)

(* The loop comparing data[key] with data[key]. *)
DiffersSelf(data, other) ==
    \E key \in KeysOf(data) : LooseNe(Get(data, key), Get(data, key))

(* for(let key in data){ if (data[key] != other[key]) return false } *)
Differs(data, other) ==
    \E key \in KeysOf(data) : LooseNe(Get(data, key), Get(other, key))

VerifySteps == [decodeAccess |-> <<"decode access">>,
                validateAccess |-> <<"decode access", "validate access">>,
                decodeRefresh |-> <<"decode access", "validate access",
                                    "decode refresh">>,
                validateRefresh |-> <<"decode access", "validate access",
                                      "decode refresh", "validate refresh">>]

(* The refresh branch of verify, infoRefresh being decode(refreshToken) and
   data the access payload's data. *)
verifyRefresh(data, refreshKey, refreshToken, clock, infoRefresh) ==
    IF ~infoRefresh.ok
    THEN [ret |-> FALSE, steps |-> VerifySteps.decodeRefresh]
    ELSE IF KeysOf(data) # {}
            /\ (Nullish(infoRefresh.body)
                \/ Nullish(Get(infoRefresh.body, NAME.data)))
         THEN [ret |-> FALSE, steps |-> VerifySteps.decodeRefresh]
    ELSE IF Differs(data, Get(infoRefresh.body, NAME.data))
         THEN [ret |-> FALSE, steps |-> VerifySteps.decodeRefresh]
    ELSE [ret |-> validate(refreshToken, refreshKey, clock).success,
          steps |-> VerifySteps.validateRefresh]

(* verify after its first statement, infoAccess being decode(accessToken). *)
verifyAccess(user, accessKey, accessToken, refreshKey, refreshToken, clock, infoAccess) ==
    IF ~infoAccess.ok THEN [ret |-> FALSE, steps |-> VerifySteps.decodeAccess]
    ELSE IF Nullish(user)
         THEN [ret |-> FALSE, steps |-> VerifySteps.decodeAccess]
    ELSE IF ~Capable(user)
         THEN [ret |-> FALSE, steps |-> VerifySteps.decodeAccess]
    ELSE IF Nullish(infoAccess.body)
         THEN [ret |-> FALSE, steps |-> VerifySteps.decodeAccess]
    ELSE IF Differs(Get(infoAccess.body, NAME.data), user)
         THEN [ret |-> FALSE, steps |-> VerifySteps.decodeAccess]
    ELSE IF validate(accessToken, accessKey, clock).success
         THEN [ret |-> TRUE, steps |-> VerifySteps.validateAccess]
    ELSE IF Nullish(refreshKey) \/ Nullish(refreshToken)
         THEN [ret |-> FALSE, steps |-> VerifySteps.validateAccess]
    ELSE Bind(decode(refreshToken), LAMBDA infoRefresh :
           verifyRefresh(Get(infoAccess.body, NAME.data), refreshKey,
                         refreshToken, clock, infoRefresh))

(* [ret, steps]: the boolean verify returns and the decode / validate calls
   it made, in order. A TypeError (a property of null or undefined) is caught
   and gives false. *)
verifyRun(user, accessKey, accessToken, refreshKey, refreshToken, clock) ==
    Bind(decode(accessToken), LAMBDA infoAccess :
      verifyAccess(user, accessKey, accessToken, refreshKey, refreshToken,
                   clock, infoAccess))

verify(user, accessKey, accessToken, refreshKey, refreshToken, clock) ==
    verifyRun(user, accessKey, accessToken, refreshKey, refreshToken, clock).ret

----------------------------------------------------------------------------
(* Token.generate *)

DayMs == (3600 * 1000) * 24

NoConfig == [set |-> FALSE, Domain |-> <<>>, LTT |-> 0, LTRT |-> 0]

(* A parameter with a default value: undefined takes the default. *)
Default(x, d) == IF x.t = "u" THEN d ELSE x

(* token == false *)
IsFalse(x) == (x.t = "b" /\ x.v = 0) \/ (x.t \in {"s", "n"} /\ ToNum(x) = 0)

(* if (refreshKey) in the place of if (refreshKey != ''). *)
Truthy(x) == ~(x.t \in {"z", "u"}) /\ ~(x.t = "s" /\ x.v = <<>>)
             /\ ~(x.t \in {"n", "b"} /\ x.v = 0)

(* refreshKey != '' *)
NotEmptyStr(x) == LooseNe(x, Str(<<>>)) /\ ~(x.t = "n" /\ x.v = 0)

(* The return value false of generate. *)
Failed == [ok |-> FALSE]

(* The result object (ok = TRUE), or false (ok = FALSE): reading a property
   of the unset config throws, a token that is false throws, and the catch
   returns false. *)
generate(user, accessKey0, refreshKey0, clock, config) ==
    LET accessKey == Default(accessKey0, Str(<<>>))
        refreshKey == Default(refreshKey0, Str(<<>>))
        exp1 == clock + DayMs * config.LTT
        exp2 == clock + DayMs * config.LTRT
        data(exp) == Obj(<< <<NAME.iss, Str(config.Domain)>>,
                            <<NAME.gen, Num(clock)>>,
                            <<NAME.exp, Num(exp)>>,
                            <<NAME.data, user>> >>)
    IN  IF ~config.set THEN Failed
        ELSE Bind(encode(data(exp1), accessKey), LAMBDA token :
               IF IsFalse(token) THEN Failed
               ELSE IF NotEmptyStr(refreshKey)
                    THEN Bind(encode(data(exp2), refreshKey),
                              LAMBDA refreshToken :
                                IF IsFalse(refreshToken) THEN Failed
                                ELSE [ok |-> TRUE, success |-> 1,
                                      accessToken |-> token,
                                      refreshToken |-> refreshToken,
                                      dateAccess |-> exp1,
                                      dateRefresh |-> exp2])
               ELSE [ok |-> TRUE, success |-> 1, accessToken |-> token,
                     dateAccess |-> exp1])

----------------------------------------------------------------------------
(* Token.generateCsrf, Token.verifyCsrf *)

(* What a call gets from a method whose catch block has no return
   statement: undefined. *)
NoValue == [ok |-> FALSE, value |-> Undefined]

(* generateCsrf signing {id} alone. *)
generateCsrfIdOnly(id, csrfKey, clock) ==
    IF csrfKey.t # "s" THEN NoValue
    ELSE [ok |-> TRUE,
          csrfToken |-> Str(createHmac(csrfKey.v,
                                       JSONstringify(Obj(<< <<NAME.id, id>> >>)),
                                       "hex")),
          timeCreate |-> clock]

(* {csrfToken, timeCreate} (ok = TRUE) or undefined (ok = FALSE): createHmac
   throws on a key that is no string and the catch returns nothing. *)
generateCsrf(id, csrfKey, clock) ==
    LET data == Obj(<< <<NAME.id, id>>, <<NAME.create, Num(clock)>> >>)
    IN  IF csrfKey.t # "s" THEN NoValue
        ELSE [ok |-> TRUE,
              csrfToken |-> Str(createHmac(csrfKey.v, JSONstringify(data), "hex")),
              timeCreate |-> clock]

(* token == sign, or false when createHmac or update throws. *)
verifyCsrf(key, data, token) ==
    IF key.t # "s" THEN FALSE
    ELSE IF data.t = "u" THEN FALSE
    ELSE LET sign == createHmac(key.v, JSONstringify(data), "hex")
         IN  token.t = "s" /\ token.v = sign

----------------------------------------------------------------------------
(* Inputs *)

MaxTime == 1

K1 == Str(<<107, 49>>)
K2 == Str(<<107, 50>>)
Empty == Str(<<>>)

(* An identity object with the properties named in has. *)
User(id, has) ==
    SelectSeq(<< <<NAME.userId, Str(id)>>, <<NAME.userKey, K1>>,
                 <<NAME.userRkey, K2>> >>, LAMBDA p : p[1] \in has)

AllThree == {NAME.userId, NAME.userKey, NAME.userRkey}

(* "u1" and "u2"; a one-character id above the single-byte range whose low
   byte is "/" (U+042F); one whose low byte is the double quote (U+0122);
   and identities without userRkey, without userKey, without userId. *)
uA == Obj(User(<<117, 49>>, AllThree))
uB == Obj(User(<<117, 50>>, AllThree))
uW == Obj(User(<<1071>>, AllThree))
uQ == Obj(User(<<290>>, AllThree))
uL == Obj(User(<<117, 49>>, AllThree \ {NAME.userRkey}))
uNoKey == Obj(User(<<117, 49>>, AllThree \ {NAME.userKey}))
uNoId == Obj(User(<<117, 49>>, AllThree \ {NAME.userId}))

Users == {uA, uW, uQ, uL}

(* The identities generate is called with, and those verify is called
   with. *)
Identities == {uA, uQ, uL}

Callers == Identities \cup {uB, uNoKey, uNoId}

(* The config modules setConfig can import, by path; a path that is not
   here makes import() throw. *)
ConfigModules ==
    [a |-> [set |-> TRUE, Domain |-> <<100>>, LTT |-> 0, LTRT |-> 1],
     b |-> [set |-> TRUE, Domain |-> <<100>>, LTT |-> 1, LTRT |-> 0]]

ConfigPaths == {"a", "b", "missing"}

Payload(user, exp) ==
    Obj(<< <<NAME.iss, Str(<<100>>)>>, <<NAME.gen, Num(0)>>,
           <<NAME.exp, Num(exp)>>, <<NAME.data, user>> >>)

Payloads == {Payload(u, e) : u \in Users, e \in 0..MaxTime}

(* One character of the signature segment changed. *)
Corrupt(token) ==
    IF token.t # "s" \/ token.v = <<>> THEN token
    ELSE LET n == Len(token.v)
             c == IF token.v[n] = HM.base + CH.upA THEN HM.base + CH.upA + 1
                  ELSE HM.base + CH.upA
         IN  Str([token.v EXCEPT ![n] = c])

(* The token without its last segment and the dot before it. *)
Cut(token) ==
    IF token.t # "s" THEN token
    ELSE LET dots == {i \in 1..Len(token.v) : token.v[i] = CH.dot}
         IN  IF dots = {} THEN token
             ELSE Str(SubSeq(token.v, 1,
                             (CHOOSE i \in dots : \A j \in dots : j <= i) - 1))

----------------------------------------------------------------------------
(* The state: the class-level config, the clock, what the caller holds from
   the last call that issued something, the call that has just returned
   with its result (op = "none" once the caller has taken the result: the
   methods are synchronous, one call runs at a time), and the paths whose
   import a setConfig call is awaiting. *)

Idle == call.op = "none"

NoHeld == [src |-> "none", data |-> Undefined, key |-> Undefined,
           rkey |-> Undefined, A |-> Null, R |-> Null, at |-> 0]

Init ==
    /\ CONFIG = NoConfig
    /\ now = 0
    /\ held = NoHeld
    /\ call = [op |-> "none"]
    /\ importing = {}

(* Token.setConfig(pathToConfig) up to its await: the import of path is
   started and the call returns its promise. *)
SetConfig(path) ==
    /\ Idle
    /\ importing' = importing \cup {path}
    /\ call' = [op |-> "setConfig", path |-> path]
    /\ UNCHANGED <<CONFIG, now, held>>

(* The rest of setConfig with a failed import assigning what it got,
   nothing. *)
ImportedOrCleared(path) ==
    /\ Idle
    /\ path \in importing
    /\ importing' = importing \ {path}
    /\ CONFIG' = IF path \in DOMAIN ConfigModules THEN ConfigModules[path]
                 ELSE NoConfig
    /\ UNCHANGED <<now, held, call>>

(* The rest of setConfig, once the import of path has settled and no
   synchronous code is running: the module's default export is assigned; a
   failed import is caught and leaves the config as it was. Imports settle
   in any order. *)
Imported(path) ==
    /\ Idle
    /\ path \in importing
    /\ importing' = importing \ {path}
    /\ CONFIG' = IF path \in DOMAIN ConfigModules THEN ConfigModules[path]
                 ELSE CONFIG
    /\ UNCHANGED <<now, held, call>>

Tick ==
    /\ Idle
    /\ now < MaxTime
    /\ now' = now + 1
    /\ UNCHANGED <<CONFIG, held, call, importing>>

Encode(data, key) ==
    /\ Idle
    /\ \E ret \in {encode(data, key)} :
        /\ call' = [op |-> "encode", data |-> data, key |-> key, ret |-> ret]
        /\ held' = IF ret.t = "s"
                   THEN [src |-> "encode", data |-> data, key |-> key,
                         rkey |-> Undefined, A |-> ret, R |-> Null, at |-> now]
                   ELSE held
        /\ UNCHANGED <<CONFIG, now, importing>>

(* The token strings a caller can present: what it holds, damaged copies of
   it, nothing, and a string that is no percent-encoding. *)
Presentable == {held.A, Corrupt(held.A), Cut(held.A), Null, Empty,
                Str(<<CH.pct>>)}

Decode(token) ==
    /\ Idle
    /\ call' = [op |-> "decode", token |-> token, ret |-> decode(token)]
    /\ UNCHANGED <<CONFIG, now, held, importing>>

Validate(token, key) ==
    /\ Idle
    /\ call' = [op |-> "validate", token |-> token, key |-> key,
                clock |-> now, ret |-> validate(token, key, now)]
    /\ UNCHANGED <<CONFIG, now, held, importing>>

Generate(user, accessKey, refreshKey) ==
    /\ Idle
    /\ \E ret \in {generate(user, accessKey, refreshKey, now, CONFIG)} :
        /\ call' = [op |-> "generate", user |-> user, accessKey |-> accessKey,
                    refreshKey |-> refreshKey, clock |-> now,
                    config |-> CONFIG, ret |-> ret]
        /\ held' = IF ret.ok
                   THEN [src |-> "generate", data |-> user, key |-> accessKey,
                         rkey |-> refreshKey, A |-> ret.accessToken,
                         R |-> IF "refreshToken" \in DOMAIN ret
                               THEN ret.refreshToken ELSE Null,
                         at |-> now]
                   ELSE held
        /\ UNCHANGED <<CONFIG, now, importing>>

(* A refresh token issued to another identity under the refresh key. *)
OtherRefresh == encode(Payload(uB, DayMs), K2)

(* The (refreshKey, refreshToken) arguments a caller can pass: the pair it
   holds, no pair, half a pair, another identity's refresh token, a damaged
   refresh token, the refresh token with a key that did not sign it. *)
RefreshPairs == {<<K2, held.R>>, <<Null, Null>>, <<Null, held.R>>,
                 <<K2, Null>>, <<K2, OtherRefresh>>, <<K2, Cut(held.R)>>,
                 <<K1, held.R>>}

Verify(user, accessKey, accessToken, refreshKey, refreshToken) ==
    /\ Idle
    /\ \E run \in {verifyRun(user, accessKey, accessToken, refreshKey,
                              refreshToken, now)} :
        /\ call' = [op |-> "verify", user |-> user, accessKey |-> accessKey,
                    accessToken |-> accessToken, refreshKey |-> refreshKey,
                    refreshToken |-> refreshToken, clock |-> now,
                    ret |-> run.ret, steps |-> run.steps]
        /\ UNCHANGED <<CONFIG, now, held, importing>>

GenerateCsrf(id, csrfKey) ==
    /\ Idle
    /\ \E ret \in {generateCsrf(id, csrfKey, now)} :
        /\ call' = [op |-> "generateCsrf", id |-> id, csrfKey |-> csrfKey,
                    clock |-> now, ret |-> ret]
        /\ held' = IF ret.ok
                   THEN [src |-> "csrf", data |-> id, key |-> csrfKey,
                         rkey |-> Undefined, A |-> ret.csrfToken, R |-> Null,
                         at |-> ret.timeCreate]
                   ELSE held
        /\ UNCHANGED <<CONFIG, now, importing>>

VerifyCsrf(key, data, token) ==
    /\ Idle
    /\ call' = [op |-> "verifyCsrf", key |-> key, data |-> data,
                token |-> token, ret |-> verifyCsrf(key, data, token)]
    /\ UNCHANGED <<CONFIG, now, held, importing>>

(* The {id, create} / {id, createdAt} objects a caller can hand to
   verifyCsrf. *)
CsrfIds == {Str(<<120>>), Str(<<121>>)}

CsrfData == {Obj(<< <<NAME.id, i>>, <<n, Num(t)>> >>) :
               i \in CsrfIds, n \in {NAME.create, NAME.createdAt},
               t \in 0..MaxTime}

(* The caller takes the result of the call that returned. *)
Return ==
    /\ ~Idle
    /\ call' = [op |-> "none"]
    /\ UNCHANGED <<CONFIG, now, held, importing>>

NextCodec ==
    \/ Tick
    \/ Return
    \/ \E data \in Payloads, key \in {K1, K2, Empty, Null} : Encode(data, key)
    \/ \E token \in Presentable : Decode(token)
    \/ \E token \in Presentable, key \in {K1, K2} : Validate(token, key)

(* Issuing: every way of calling setConfig and generate, by a caller that
   awaits one setConfig before it calls the next. *)
NextGenerate ==
    \/ Tick
    \/ Return
    \/ \E path \in ConfigPaths : importing = {} /\ SetConfig(path)
    \/ \E path \in importing : Imported(path)
    \/ \E user \in Identities, accessKey \in {K1, Empty},
          refreshKey \in {K2, Empty, Undefined, Null} :
            Generate(user, accessKey, refreshKey)

(* Verifying what generate issued under one config, with every way of
   calling verify. *)
NextVerify ==
    \/ Tick
    \/ Return
    \/ SetConfig("a")
    \/ Imported("a")
    \/ \E user \in Identities, refreshKey \in {K2, Empty} :
            Generate(user, K1, refreshKey)
    \/ \E user \in Callers, accessKey \in {K1, K2},
          accessToken \in {held.A, Corrupt(held.A)},
          refresh \in RefreshPairs :
            Verify(user, accessKey, accessToken, refresh[1], refresh[2])

NextCsrf ==
    \/ Tick
    \/ Return
    \/ \E id \in CsrfIds, csrfKey \in {K1, K2, Null} : GenerateCsrf(id, csrfKey)
    \/ \E key \in {K1, K2}, data \in CsrfData,
          token \in {held.A, Corrupt(held.A)} : VerifyCsrf(key, data, token)

(* Every method called the ways that make it fail (no key, a token that is
   absent, cut, damaged or not decodable, no identity, the config not set,
   nothing to sign) next to the ways that succeed. *)
NextFailures ==
    \/ Tick
    \/ Return
    \/ SetConfig("a")
    \/ Imported("a")
    \/ \E user \in {uA, uQ}, key \in {K1, Empty, Null, Undefined} :
            Encode(Payload(user, 0), key)
    \/ \E token \in Presentable : Decode(token)
    \/ \E token \in Presentable, key \in {K1, Null} : Validate(token, key)
    \/ \E accessKey \in {K1, Empty, Undefined}, refreshKey \in {K2, Empty, Null} :
            Generate(uA, accessKey, refreshKey)
    \/ \E user \in {uA, Null}, accessToken \in Presentable,
          refresh \in {<<Null, Null>>, <<K2, held.R>>, <<K2, Cut(held.R)>>} :
            Verify(user, K1, accessToken, refresh[1], refresh[2])
    \/ \E csrfKey \in {K1, Null, Undefined} : GenerateCsrf(Str(<<120>>), csrfKey)
    \/ \E key \in {K1, Null}, data \in CsrfData \cup {Undefined} :
            VerifyCsrf(key, data, held.A)

(* Configuring at any time: setConfig calls that are not awaited, with
   imports that succeed or fail and settle in any order, between calls of
   generate, validate and verify. *)
NextConfig ==
    \/ Tick
    \/ Return
    \/ \E path \in ConfigPaths : SetConfig(path)
    \/ \E path \in importing : Imported(path)
    \/ \E refreshKey \in {K2, Empty} : Generate(uA, K1, refreshKey)
    \/ \E key \in {K1, K2} : Validate(held.A, key)
    \/ \E refresh \in {<<Null, Null>>, <<K2, held.R>>} :
            Verify(uA, K1, held.A, refresh[1], refresh[2])

Next ==
    \/ NextCodec
    \/ NextGenerate
    \/ NextVerify
    \/ NextCsrf
    \/ NextFailures
    \/ NextConfig

Spec == Init /\ [][Next]_vars

SpecCodec == Init /\ [][NextCodec]_vars

SpecGenerate == Init /\ [][NextGenerate]_vars

SpecVerify == Init /\ [][NextVerify]_vars

SpecCsrf == Init /\ [][NextCsrf]_vars

SpecFailures == Init /\ [][NextFailures]_vars

SpecConfig == Init /\ [][NextConfig]_vars

----------------------------------------------------------------------------
(* Properties. A call that has returned is in call, with its arguments, the
   clock time it ran at and its result; what the caller holds from the last
   issuing call is in held. *)

ValidResult == [success |-> TRUE, message |-> MSG.valid]
ExpiredResult == [success |-> TRUE, message |-> MSG.expired]
InvalidResult == [success |-> FALSE, message |-> MSG.invalid]

(* The access token of the verify call c passes everything verify checks
   before it validates: the token decodes, the identity has the three
   properties, every key of the payload's data has the identity's value. *)
ChecksPass(c) ==
    LET info == decode(c.accessToken)
    IN  /\ info.ok
        /\ \A name \in AllThree : HasOwn(c.user, name)
        /\ IsObj(info.body)
        /\ \A key \in KeysOf(Get(info.body, NAME.data)) :
              Get(Get(info.body, NAME.data), key) = Get(c.user, key)

(* The caller holds a pair (A, R) from generate with both keys. *)
HoldsPair == held.src = "generate" /\ held.R # Null

(* The verify call in call presents the held pair, with the identity and
   the keys it was issued for, and accessToken as its access token. *)
PresentsPair(accessToken) ==
    /\ call.op = "verify"
    /\ HoldsPair
    /\ call.user = held.data
    /\ \A name \in AllThree : HasOwn(call.user, name)
    /\ call.accessKey = held.key
    /\ call.accessToken = accessToken
    /\ call.refreshKey = held.rkey
    /\ call.refreshToken = held.R

(* C1: a verify call whose access token passes the capability and
   identity-binding checks and which validate(accessToken, accessKey) reports
   with success = true returns true and reads no refresh token; and the pair
   (A, R) that generate(identity, k1, k2) returned to an identity with
   userId, userKey and userRkey gives verify(identity, k1, A, k2, R) = true. *)
C1_AccessSuccessVerifies ==
    /\ (call.op = "verify" /\ ChecksPass(call)
        /\ validate(call.accessToken, call.accessKey, call.clock).success)
       => (call.ret = TRUE /\ call.steps = VerifySteps.validateAccess)
    /\ PresentsPair(held.A) => call.ret = TRUE

(* The branches of verify after a failed access validation. *)
C2_Branches ==
    (call.op = "verify" /\ ChecksPass(call)
     /\ ~validate(call.accessToken, call.accessKey, call.clock).success)
    => IF ~Nullish(call.refreshKey) /\ ~Nullish(call.refreshToken)
       THEN LET data == Get(decode(call.accessToken).body, NAME.data)
                infoRefresh == decode(call.refreshToken)
                other == Get(infoRefresh.body, NAME.data)
            IN  IF ~infoRefresh.ok THEN call.ret = FALSE
                ELSE IF \E key \in KeysOf(data) : Get(data, key) # Get(other, key)
                     THEN call.ret = FALSE
                ELSE call.ret = validate(call.refreshToken, call.refreshKey,
                                         call.clock).success
       ELSE call.ret = FALSE

(* C2: after the checks pass and validate(accessToken, accessKey) reports
   success = false, verify with a refresh pair returns false when the
   refresh token does not decode, false when a key of the access payload's
   data differs in the refresh payload's data, and otherwise the success flag
   of validate(refreshToken, refreshKey); without a refresh pair it returns
   false. So an access token with one character of its signature changed,
   presented with the refresh token of the same generate call, verifies as
   true. *)
C2_CorruptedAccessFallsBack ==
    /\ C2_Branches
    /\ PresentsPair(Corrupt(held.A)) => call.ret = TRUE

(* C3: validate of a token that decodes and whose payload exp is earlier
   than the clock returns success = true with the expired message, whatever
   the key and the signature are; a token that decodes gets exactly one of the
   three outcomes valid, expired, invalid, which are three different results,
   and expired only when exp is earlier than the clock. *)
C3_ExpiredReported ==
    (call.op = "validate" /\ decode(call.token).ok)
    => LET exp == Get(decode(call.token).body, NAME.exp)
       IN  /\ (IsNum(exp) /\ exp.v < call.clock) => call.ret = ExpiredResult
           /\ call.ret = ExpiredResult => (IsNum(exp) /\ exp.v < call.clock)
           /\ call.ret \in {ValidResult, ExpiredResult, InvalidResult}
           /\ Cardinality({ValidResult, ExpiredResult, InvalidResult}) = 3
           /\ Cardinality({MSG.valid, MSG.expired, MSG.invalid}) = 3

(* An expired token with a damaged signature, validated under another key
   than the one that signed it, is reported expired. *)
C3_Witness ==
    /\ call.op = "validate"
    /\ held.src = "encode"
    /\ call.token = Corrupt(held.A)
    /\ call.key # held.key
    /\ Get(held.data, NAME.exp).v < call.clock
    /\ call.ret = ExpiredResult

(* C4: validate of a token that encode(P, K1) produced with a non-empty key
   K1 and a payload whose exp is not in the past returns success = true with
   the valid message under K1 and success = false with the invalid message
   under any other key. *)
C4_KeyDecides ==
    (call.op = "validate" /\ held.src = "encode" /\ call.token = held.A
     /\ Get(held.data, NAME.exp).v >= call.clock)
    => call.ret = IF call.key = held.key THEN ValidResult ELSE InvalidResult

(* C5: decode(encode(P, K)) with a non-empty key K has the header
   {alg: "SHA256"}, a body equal to P, and as sign the base64 HMAC under K of
   base64(JSON(header)) "." base64(JSON(P)), for every payload, those with
   characters above the single-byte range included. *)
C5_RoundTrip ==
    (call.op = "encode" /\ KeyGiven(call.key))
    => LET info == decode(call.ret)
       IN  /\ call.ret.t = "s"
           /\ info.ok
           /\ info.header = Header
           /\ info.body = call.data
           /\ info.sign = createHmac(String(call.key),
                                     btoa(JSONstringify(Header)) \o <<CH.dot>>
                                     \o btoa(JSONstringify(call.data)),
                                     "base64")

(* C6: when verify returns true, the access token decodes and every key of
   its payload's data has the value of the same-named property of the
   identity passed to verify; a key with another value makes verify return
   false, whatever the keys, signatures, expiry and refresh arguments are. *)
C6_IdentityBound ==
    call.op = "verify"
    => LET info == decode(call.accessToken)
           data == Get(info.body, NAME.data)
       IN  /\ call.ret = TRUE
              => (info.ok /\ \A key \in KeysOf(data) :
                                Get(data, key) = Get(call.user, key))
           /\ (info.ok /\ \E key \in KeysOf(data) :
                             Get(data, key) # Get(call.user, key))
              => call.ret = FALSE

(* The access token issued to "u1", signed and not expired, is refused for
   the identity "u2", which has all three properties. *)
C6_Witness ==
    /\ call.op = "verify"
    /\ held.src = "generate"
    /\ held.data = uA
    /\ call.user = uB
    /\ call.accessToken = held.A
    /\ call.accessKey = held.key
    /\ call.clock = held.at
    /\ validate(call.accessToken, call.accessKey, call.clock) = ValidResult
    /\ call.ret = FALSE

(* C7: verify returns false when the identity lacks one of the own
   properties userId, userKey, userRkey, for every access token, refresh
   token and keys, signed and unexpired tokens included. *)
C7_CapabilityRequired ==
    (call.op = "verify" /\ \E name \in AllThree : ~HasOwn(call.user, name))
    => call.ret = FALSE

(* The identity without userRkey presents the token generate issued to it,
   signed and not expired, and is refused. *)
C7_Witness ==
    /\ call.op = "verify"
    /\ held.src = "generate"
    /\ held.data = uL
    /\ call.user = uL
    /\ call.accessToken = held.A
    /\ call.accessKey = held.key
    /\ validate(call.accessToken, call.accessKey, call.clock) = ValidResult
    /\ call.ret = FALSE

(* The result generate returns for access key and clock of the call in
   call: a result object with exactly the properties named in names, its
   tokens strings. *)
ResultWith(names) ==
    /\ call.ret.ok
    /\ DOMAIN call.ret = {"ok", "success"} \cup names
    /\ call.ret.success = 1
    /\ \A name \in names \cap {"accessToken", "refreshToken"} :
          IsStr(call.ret[name])

(* generate is called with the config set and a non-empty access key. *)
GenerateCalled ==
    /\ call.op = "generate"
    /\ call.config.set
    /\ IsStr(call.accessKey) /\ call.accessKey.v # <<>>

(* C8 as stated: with the config set and a non-empty access key, generate
   returns accessToken and dateAccess without refreshToken and dateRefresh
   when refreshKey is the empty string, not supplied or null, and all four
   when refreshKey is non-empty. *)
C8_NullIsNoRefreshKey ==
    GenerateCalled
    => IF IsStr(call.refreshKey) /\ call.refreshKey.v # <<>>
       THEN ResultWith({"accessToken", "dateAccess", "refreshToken",
                        "dateRefresh"})
       ELSE ResultWith({"accessToken", "dateAccess"})

(* C8: with the config set and a non-empty access key, generate returns
   accessToken and dateAccess without refreshToken and dateRefresh when
   refreshKey is the empty string or not supplied, all four when refreshKey
   is a non-empty string, and false when refreshKey is null: the refresh
   token cannot be encoded under null. *)
C8_RefreshOnlyWithKey ==
    GenerateCalled
    => IF IsStr(call.refreshKey) /\ call.refreshKey.v # <<>>
       THEN ResultWith({"accessToken", "dateAccess", "refreshToken",
                        "dateRefresh"})
       ELSE IF call.refreshKey = Null THEN call.ret = Failed
       ELSE ResultWith({"accessToken", "dateAccess"})

(* generate with a null refresh key has returned false. *)
C8_Witness ==
    /\ GenerateCalled
    /\ call.refreshKey = Null
    /\ call.ret = Failed

(* C9: for a generate call with both keys at clock time now, the access
   token decodes to a payload with gen = now and exp = now + LTT * 86400000 =
   dateAccess, the refresh token to a payload with the same iss, gen and data
   and exp = now + LTRT * 86400000 = dateRefresh, and dateRefresh > dateAccess
   when LTRT > LTT. *)
C9_Lifetimes ==
    (call.op = "generate" /\ call.ret.ok /\ "refreshToken" \in DOMAIN call.ret)
    => LET access == decode(call.ret.accessToken)
           refresh == decode(call.ret.refreshToken)
           expAccess == call.clock + call.config.LTT * 86400000
           expRefresh == call.clock + call.config.LTRT * 86400000
       IN  /\ access.ok
           /\ Get(access.body, NAME.gen) = Num(call.clock)
           /\ Get(access.body, NAME.exp) = Num(expAccess)
           /\ call.ret.dateAccess = expAccess
           /\ refresh.ok
           /\ Get(refresh.body, NAME.iss) = Get(access.body, NAME.iss)
           /\ Get(refresh.body, NAME.gen) = Get(access.body, NAME.gen)
           /\ Get(refresh.body, NAME.data) = Get(access.body, NAME.data)
           /\ Get(refresh.body, NAME.exp) = Num(expRefresh)
           /\ call.ret.dateRefresh = expRefresh
           /\ call.config.LTRT > call.config.LTT
              => call.ret.dateRefresh > call.ret.dateAccess

(* The object {id, <name>: time} a caller hands to verifyCsrf. *)
CsrfObject(id, name, time) == Obj(<< <<NAME.id, id>>, <<name, Num(time)>> >>)

(* verifyCsrf is called with the held token and the id it was issued for,
   the time under the property called name. *)
CsrfPresented(name) ==
    /\ call.op = "verifyCsrf"
    /\ held.src = "csrf"
    /\ call.token = held.A
    /\ call.data = CsrfObject(held.data, name, held.at)

(* C10 as stated: the caller rebuilds {id, createdAt} from the id and the
   time generateCsrf returned, and verifyCsrf is true under the key of
   generateCsrf. *)
C10_CreatedAtVerifies ==
    (CsrfPresented(NAME.createdAt) /\ call.key = held.key) => call.ret = TRUE

(* C10: for every id and string key, generateCsrf returns {csrfToken,
   timeCreate}; verifyCsrf(key, {id, create: timeCreate}, csrfToken) is true
   and verifyCsrf(key2, {id, create: timeCreate}, csrfToken) is false for
   every other key2; verifyCsrf(key, data, token) is true exactly when token
   is the hex HMAC under key of JSON(data). *)
C10_CsrfRoundTrip ==
    /\ (call.op = "generateCsrf" /\ IsStr(call.csrfKey))
       => /\ call.ret.ok
          /\ DOMAIN call.ret = {"ok", "csrfToken", "timeCreate"}
          /\ held.src = "csrf" /\ held.A = call.ret.csrfToken
          /\ held.at = call.ret.timeCreate /\ held.data = call.id
    /\ CsrfPresented(NAME.create) => (call.ret = (call.key = held.key))
    /\ call.op = "verifyCsrf"
       => (call.ret = (call.token = Str(createHmac(call.key.v,
                                                   JSONstringify(call.data),
                                                   "hex"))))

(* The token of generateCsrf, presented with {id, create: timeCreate} under
   the same key, after the clock has moved on, has verified. *)
C10_Witness ==
    /\ CsrfPresented(NAME.create)
    /\ call.key = held.key
    /\ now > held.at
    /\ call.ret = TRUE

(* The call in call is a method call that has returned. *)
Returned == call.op \notin {"none", "setConfig"}

(* No key: null, undefined or the empty string. *)
NoKey(key) == key \in {Null, Undefined, Empty}

(* A token that is absent, empty, no percent-encoding, or has fewer than
   three segments. *)
Malformed(token) ==
    \/ token \in {Null, Undefined, Empty, Str(<<CH.pct>>)}
    \/ IsStr(token)
       /\ Cardinality({i \in 1..Len(token.v) : token.v[i] = CH.dot}) < 2

(* The call c is one that fails, by its arguments: no key to sign with, a
   token that is malformed or does not decode, no identity, the config not
   set, nothing to sign. *)
FailureCase(c) ==
    CASE c.op = "encode" -> NoKey(c.key)
      [] c.op = "decode" -> Malformed(c.token)
      [] c.op = "validate" -> Malformed(c.token) \/ ~decode(c.token).ok
      [] c.op = "verify" ->
            Malformed(c.accessToken) \/ ~decode(c.accessToken).ok
            \/ c.user \in {Null, Undefined}
      [] c.op = "generate" ->
            ~c.config.set \/ NoKey(c.accessKey) \/ c.refreshKey = Null
      [] c.op = "generateCsrf" -> c.csrfKey \in {Null, Undefined}
      [] c.op = "verifyCsrf" -> c.key \in {Null, Undefined} \/ c.data = Undefined
      [] OTHER -> FALSE

(* The call c returned false, or for validate a {success: false, message}
   structure. *)
SentinelFalse(c) ==
    CASE c.op = "encode" -> c.ret = False
      [] c.op = "decode" -> c.ret = NoToken
      [] c.op = "validate" ->
            DOMAIN c.ret = {"success", "message"} /\ c.ret.success = FALSE
      [] c.op = "verify" -> c.ret = FALSE
      [] c.op = "generate" -> c.ret = Failed
      [] c.op = "generateCsrf" -> c.ret = Failed
      [] c.op = "verifyCsrf" -> c.ret = FALSE
      [] OTHER -> FALSE

(* The call c returned what the method returns when it does not fail. *)
SuccessValue(c) ==
    CASE c.op = "encode" -> IsStr(c.ret)
      [] c.op = "decode" -> c.ret.ok
      [] c.op = "validate" ->
            DOMAIN c.ret = {"success", "message"} /\ c.ret.success = TRUE
      [] c.op = "verify" -> c.ret = TRUE
      [] c.op = "generate" -> c.ret.ok
      [] c.op = "generateCsrf" -> c.ret.ok
      [] c.op = "verifyCsrf" -> c.ret = TRUE
      [] OTHER -> FALSE

(* C11 as stated: every method call returns a value (the body of each method
   is one try block whose catch returns); a call that fails returns false or
   {success: false, ...}; and a call returns either that or the method's
   value of success, never anything else. *)
C11_FailuresAreFalse ==
    Returned
    => /\ FailureCase(call) => SentinelFalse(call)
       /\ SentinelFalse(call) \/ SuccessValue(call)

(* C11: every method call returns a value; a failing call of encode, decode,
   verify, generate or verifyCsrf returns false, of validate a
   {success: false, message} structure, and of generateCsrf undefined; a call
   returns either that or the method's value of success. *)
C11_FailuresAreSentinels ==
    Returned
    => /\ FailureCase(call)
          => IF call.op = "generateCsrf" THEN call.ret = NoValue
             ELSE SentinelFalse(call)
       /\ \/ SuccessValue(call)
          \/ IF call.op = "generateCsrf" THEN call.ret = NoValue
             ELSE SentinelFalse(call)

(* generateCsrf called without a key has returned undefined. *)
C11_Witness ==
    /\ call.op = "generateCsrf"
    /\ call.csrfKey = Null
    /\ call.ret = NoValue
    /\ call.ret # Failed

(* C12 as stated: once the config has been set by a successful setConfig,
   no step changes it: no generate, verify or validate call and no further
   setConfig call. *)
C12_SetOnce == [][CONFIG.set => CONFIG' = CONFIG]_vars

(* C12: the config is changed only by setConfig. No call of generate,
   validate or verify changes it, and no start of a setConfig call, whose
   assignment comes after its await; when it changes, it becomes the default
   export of a module whose import a setConfig call was awaiting; a setConfig
   call whose import fails leaves it as it was; once set it is never unset.
   Nothing keeps a later setConfig from replacing it: every setConfig call
   whose import succeeds assigns it, the first or not. *)
C12_OnlySetConfigAssigns ==
    [][/\ CONFIG' # CONFIG
          => /\ \E path \in importing \cap DOMAIN ConfigModules :
                  CONFIG' = ConfigModules[path] /\ importing' = importing \ {path}
             /\ call' = call
       /\ call' # call => CONFIG' = CONFIG
       /\ \A path \in importing \ importing' :
            CONFIG' = IF path \in DOMAIN ConfigModules THEN ConfigModules[path]
                      ELSE CONFIG
       /\ CONFIG.set => CONFIG'.set]_vars

(* The caller holds a token that generate issued with the access lifetime
   of a config that is no longer the config: a later setConfig has replaced
   the config generate read, and a setConfig call is still awaiting. *)
C12_Witness ==
    /\ held.src = "generate"
    /\ CONFIG.set
    /\ decode(held.A).ok
    /\ Get(decode(held.A).body, NAME.exp) # Num(held.at + DayMs * CONFIG.LTT)
    /\ importing # {}

(* The third segment of token is the base64 HMAC under key of its first two
   segments joined by a dot. *)
Signed(token, key) ==
    /\ IsStr(token)
    /\ decodeURIComponent(token.v).ok
    /\ LET segments == split(decodeURIComponent(token.v).val)
       IN  /\ Len(segments) >= 3
           /\ segments[3] = createHmac(String(key),
                                       segments[1] \o <<CH.dot>> \o segments[2],
                                       "base64")

(* The payload of token has an exp earlier than the clock time. *)
PastExp(token, clock) ==
    /\ decode(token).ok
    /\ IsObj(decode(token).body)
    /\ IsNum(Get(decode(token).body, NAME.exp))
    /\ Get(decode(token).body, NAME.exp).v < clock

(* C13 as stated: when verify returns true, the access token is signed
   under the access key, or the refresh token is signed under the refresh
   key. *)
C13_SignatureRequired ==
    (call.op = "verify" /\ call.ret = TRUE)
    => \/ Signed(call.accessToken, call.accessKey)
       \/ Signed(call.refreshToken, call.refreshKey)

(* C13: when verify returns true, it returns it on the access token or on
   the refresh token, and that token decodes and either is signed under its
   key or carries an exp earlier than the clock: an expired token is
   accepted without a look at its signature. A token that is neither signed
   under the key nor expired is never what verify returns true on. *)
C13_SignedOrExpired ==
    (call.op = "verify" /\ call.ret = TRUE)
    => \/ /\ call.steps = VerifySteps.validateAccess
          /\ decode(call.accessToken).ok
          /\ \/ Signed(call.accessToken, call.accessKey)
             \/ PastExp(call.accessToken, call.clock)
       \/ /\ call.steps = VerifySteps.validateRefresh
          /\ decode(call.refreshToken).ok
          /\ \/ Signed(call.refreshToken, call.refreshKey)
             \/ PastExp(call.refreshToken, call.clock)

(* verify has returned true on an expired access token whose signature is
   damaged, with no refresh pair. *)
C13_Witness ==
    /\ call.op = "verify"
    /\ held.src = "generate"
    /\ call.accessToken = Corrupt(held.A)
    /\ call.refreshKey = Null /\ call.refreshToken = Null
    /\ ~Signed(call.accessToken, call.accessKey)
    /\ PastExp(call.accessToken, call.clock)
    /\ call.ret = TRUE

====
